---- MODULE Spec2Model ----
(***************************************************************************)
(* The copy-model long-running-operation poller of                         *)
(* sdk/formrecognizer/ai-form-recognizer/src/lro/copy/poller.ts:           *)
(* the BeginCopyModelPoller constructor (fresh and resumed), the poll      *)
(* operation made by makeBeginCopyModelPollOperation (update, cancel,      *)
(* toString) and the polling loop that drives it.                          *)
(*                                                                         *)
(* update is an async function: it is modelled as one step per stretch of  *)
(* code between two awaits (StartUpdate, BeginResponse, GetResponse), so   *)
(* that invocations started before an earlier one has finished interleave  *)
(* exactly at the awaits.                                                  *)
(***************************************************************************)
EXTENDS Integers, Sequences, FiniteSets, TLC

----------------------------------------------------------------------------
(* Bounds of the model.                                                    *)

\* update invocations that may be in flight at the same time
MaxCalls == 2
\* update invocations started on one poller instance
MaxUpdates == 2
\* pollers constructed from a resume token in one behaviour
MaxResumes == 1
\* length of an operation location returned by the service
MaxLocLen == 2

----------------------------------------------------------------------------
(* Values.  An optional value (a property that may be undefined) is a      *)
(* sequence of length 0 or 1.  A string the code takes apart (operation    *)
(* location, result id) is a sequence of characters.                       *)

None == <<>>
Some(v) == <<v>>
IsSome(o) == o # <<>>
Val(o) == o[1]
\* JavaScript truthiness of an optional boolean (undefined is falsy)
Truthy(o) == IF o = <<>> THEN FALSE ELSE o[1] = TRUE

Clients == {"client1", "client2"}
ModelIds == {"m1"}
Auths == {[modelId |-> "t1"], [modelId |-> "t2"]}
Chars == {"/", "a"}
StringsUpTo(n) == UNION {[1..k -> Chars] : k \in 0..n}
Locations == StringsUpTo(MaxLocLen)
Statuses == {"notStarted", "running", "succeeded", "failed"}
Dates == {[type |-> "Date", ms |-> 1], [type |-> "Date", ms |-> 2]}
Bodies == {"body1", "body2"}
Intervals == {1000}
SuppliedResultIds == {<<"a">>}

\* updateIntervalInMs = 5000 when the options give none
DefaultUpdateIntervalInMs == 5000

CancelMessage == <<"Cancel operation is not supported.">>
MissingLocationMessage ==
  <<"Expect a valid 'operationLocation' to retrieve analyze results">>
\* (a variant of FailedMessage that leaves the response body out)
FailedMessageWithoutBody(bodyAsText) == <<"Copy model operation failed: ">>
FailedMessage(bodyAsText) == <<"Copy model operation failed: ", bodyAsText>>
RemoteError == <<"remote call rejected">>

\* what client.beginCopyModel resolves to, or that it rejects
BeginOutcomes ==
  {[kind |-> "reject", operationLocation |-> None]}
    \cup {[kind |-> "ok", operationLocation |-> l] :
            l \in {None} \cup {Some(s) : s \in Locations}}

\* what client.getCopyModelResult resolves to, or that it rejects
\* (the dates vary where the code reads them, on succeeded; the body where the
\* code reads it, on failed)
GetOutcome(kind, status, createdOn, lastModified, bodyAsText) ==
  [kind |-> kind, status |-> status, createdOn |-> createdOn,
   lastModified |-> lastModified, bodyAsText |-> bodyAsText]
Date1 == CHOOSE d \in Dates : \A e \in Dates : d.ms <= e.ms
Body1 == CHOOSE b \in Bodies : TRUE
GetOutcomes ==
  {GetOutcome("reject", "failed", Date1, Date1, Body1)}
    \cup {GetOutcome("ok", s, Date1, Date1, Body1) : s \in {"notStarted", "running"}}
    \cup {GetOutcome("ok", "succeeded", p[1], p[2], Body1) :
            p \in {q \in Dates \X Dates : q[1].ms <= q[2].ms}}
    \cup {GetOutcome("ok", "failed", Date1, Date1, b) : b \in Bodies}

----------------------------------------------------------------------------
(* String helpers of update.                                               *)

\* (a variant of LastIndexOf that finds the first occurrence, as indexOf does)
FirstIndexOf(s, ch) ==
  LET hits == {i \in 1..Len(s) : s[i] = ch}
  IN  IF hits = {} THEN -1 ELSE (CHOOSE i \in hits : \A j \in hits : i <= j) - 1

\* String.prototype.lastIndexOf for a one-character needle, 0-based, -1 if absent
LastIndexOf(s, ch) ==
  LET hits == {i \in 1..Len(s) : s[i] = ch}
  IN  IF hits = {} THEN -1 ELSE (CHOOSE i \in hits : \A j \in hits : j <= i) - 1

\* String.prototype.substring(start) with a 0-based start
Substring(s, start) == SubSeq(s, start + 1, Len(s))

\* the result id cut out of the operation location
ExtractResultId(operationLocation) ==
  Substring(operationLocation, LastIndexOf(operationLocation, "/") + 1)

\* (a variant of LocationMissing that tests for undefined only)
LocationUndefined(r) == r.operationLocation = None

\* !result.operationLocation : undefined and the empty string are both falsy
LocationMissing(r) ==
  r.operationLocation = None \/ Val(r.operationLocation) = <<>>

----------------------------------------------------------------------------
(* Serialization.  A serialized poller is the JSON text; it is represented *)
(* by the JSON document that text denotes, each key an optional value      *)
(* (absent when JSON.stringify leaves the key out).                        *)

\* (a variant of Replacer that also drops the key resultId)
ReplacerDropsResultId(key, value) ==
  IF key = "client" \/ key = "source" \/ key = "resultId" THEN None ELSE Some(value)

\* (a variant of Replacer that drops the key source only)
ReplacerDropsSourceOnly(key, value) ==
  IF key = "source" THEN None ELSE Some(value)

\* the replacer function given to JSON.stringify
Replacer(key, value) ==
  IF key = "client" \/ key = "source" THEN None ELSE Some(value)

\* one property of an object being stringified: a property whose value is
\* undefined, or for which the replacer returns undefined, is left out
Property(key, optValue) ==
  IF optValue = None THEN None ELSE Replacer(key, Val(optValue))

\* Date.prototype.toJSON: a Date is written as its ISO string
JsonTime(t) == [type |-> "string", ms |-> t.ms]

JsonResult(r) ==
  [status |-> r.status,
   trainingStartedOn |-> JsonTime(r.trainingStartedOn),
   trainingCompletedOn |-> JsonTime(r.trainingCompletedOn),
   modelId |-> r.modelId]

\* the constructor options as they appear under copyModelOptions; onProgress
\* is a function, which JSON.stringify leaves out
JsonOptions(o) ==
  [client |-> Property("client", Some(o.client)),
   modelId |-> Property("modelId", Some(o.modelId)),
   targetResourceId |-> Property("targetResourceId", Some(o.targetResourceId)),
   targetResourceRegion |-> Property("targetResourceRegion", Some(o.targetResourceRegion)),
   copyAuthorization |-> Property("copyAuthorization", Some(o.copyAuthorization)),
   updateIntervalInMs |-> Property("updateIntervalInMs", o.updateIntervalInMs),
   resultId |-> Property("resultId", o.resultId),
   onProgress |-> None,
   resumeFrom |-> Property("resumeFrom", o.resumeFrom)]

JsonState(s) ==
  [client |-> Property("client", Some(s.client)),
   modelId |-> Property("modelId", Some(s.modelId)),
   targetResourceId |-> Property("targetResourceId", Some(s.targetResourceId)),
   targetResourceRegion |-> Property("targetResourceRegion", Some(s.targetResourceRegion)),
   copyAuthorization |-> Property("copyAuthorization", Some(s.copyAuthorization)),
   resultId |-> Property("resultId", s.resultId),
   status |-> Property("status", Some(s.status)),
   isStarted |-> Property("isStarted", s.isStarted),
   isCompleted |-> Property("isCompleted", s.isCompleted),
   result |-> Property("result",
                IF s.result = None THEN None ELSE Some(JsonResult(Val(s.result)))),
   copyModelOptions |-> Property("copyModelOptions",
                IF s.copyModelOptions = None THEN None
                ELSE Some(JsonOptions(Val(s.copyModelOptions))))]

\* toString of the poll operation
toString(state) == [state |-> JsonState(state)]

\* JSON.parse(resumeFrom).state
ParseState(resumeFrom) == resumeFrom.state

----------------------------------------------------------------------------
(* Construction.                                                           *)

\* (a variant of ConstructorState that takes status from the parsed state
\* when there is one)
ConstructorStateKeepsStatus(options) ==
  LET state == IF IsSome(options.resumeFrom)
               THEN Some(ParseState(Val(options.resumeFrom)))
               ELSE None
      Spread(key) == IF state = None THEN None ELSE Val(state)[key]
  IN  [client |-> options.client,
       modelId |-> options.modelId,
       targetResourceId |-> options.targetResourceId,
       targetResourceRegion |-> options.targetResourceRegion,
       copyAuthorization |-> options.copyAuthorization,
       resultId |-> options.resultId,
       status |-> IF Spread("status") = None THEN "notStarted"
                  ELSE Val(Spread("status")),
       isStarted |-> Spread("isStarted"),
       isCompleted |-> Spread("isCompleted"),
       result |-> Spread("result"),
       copyModelOptions |-> Some(options)]

\* the state handed to makeBeginCopyModelPollOperation: the parsed state is
\* spread first, the named properties after it replace its properties of the
\* same name, also when their value is undefined
ConstructorState(options) ==
  LET state == IF IsSome(options.resumeFrom)
               THEN Some(ParseState(Val(options.resumeFrom)))
               ELSE None
      Spread(key) == IF state = None THEN None ELSE Val(state)[key]
  IN  [client |-> options.client,
       modelId |-> options.modelId,
       targetResourceId |-> options.targetResourceId,
       targetResourceRegion |-> options.targetResourceRegion,
       copyAuthorization |-> options.copyAuthorization,
       resultId |-> options.resultId,
       status |-> "notStarted",
       isStarted |-> Spread("isStarted"),
       isCompleted |-> Spread("isCompleted"),
       result |-> Spread("result"),
       copyModelOptions |-> Some(options)]

\* makeBeginCopyModelPollOperation: the operation holds a copy of the state
MakeOperationState(state) == state

\* the poller's fields set by the constructor
ConstructorPoller(options) ==
  [updateIntervalInMs |->
     IF options.updateIntervalInMs = None THEN DefaultUpdateIntervalInMs
     ELSE Val(options.updateIntervalInMs),
   progressCallbacks |->
     IF options.onProgress = None THEN <<>> ELSE <<Val(options.onProgress)>>]

OptionsWith(client, auth, interval, resultId, onProgress, resumeFrom) ==
  [client |-> client,
   modelId |-> CHOOSE m \in ModelIds : TRUE,
   targetResourceId |-> "resource1",
   targetResourceRegion |-> "region1",
   copyAuthorization |-> auth,
   updateIntervalInMs |-> interval,
   resultId |-> resultId,
   onProgress |-> onProgress,
   resumeFrom |-> resumeFrom]

----------------------------------------------------------------------------
(* The body of update, by the code between its awaits.                     *)

\* if (!pollerState.isStarted)
ShouldBegin(pollerState) == ~Truthy(pollerState.isStarted)

\* (a variant of MarkStarted that sets the flag to false)
MarkStartedFalse(pollerState) == [pollerState EXCEPT !.isStarted = Some(FALSE)]

\* (a variant of MarkStarted that leaves the flag as it is before the await)
MarkStartedNotYet(pollerState) == pollerState

\* pollerState.isStarted = true, before the begin call is awaited
MarkStarted(pollerState) == [pollerState EXCEPT !.isStarted = Some(TRUE)]

\* pollerState.resultId = operationLocation.substring(lastSlashIndex + 1)
SetResultId(pollerState, operationLocation) ==
  [pollerState EXCEPT !.resultId = Some(ExtractResultId(operationLocation))]

\* the resultId argument of client.getCopyModelResult (pollerState.resultId!)
GetArgument(pollerState) == pollerState.resultId

\* (a variant of MakeResult with the two dates exchanged)
MakeResultDatesSwapped(response, copyAuthorization) ==
  [status |-> "ready",
   trainingStartedOn |-> response.lastModified,
   trainingCompletedOn |-> response.createdOn,
   modelId |-> copyAuthorization.modelId]

\* the result recorded when the service reports succeeded
MakeResult(response, copyAuthorization) ==
  [status |-> "ready",
   trainingStartedOn |-> response.createdOn,
   trainingCompletedOn |-> response.lastModified,
   modelId |-> copyAuthorization.modelId]

\* (a variant of HandleResponse that reports progress on every status but
\* failed, and does nothing else on succeeded)
HandleResponseAlwaysFires(pollerState, response, hasFireProgress) ==
  LET s1 == [pollerState EXCEPT !.status = response.status]
      quiet == [state |-> s1, fire |-> FALSE, err |-> None]
  IN  IF Truthy(s1.isCompleted) THEN quiet
      ELSE IF response.status # "failed" /\ hasFireProgress
        THEN [quiet EXCEPT !.fire = TRUE]
      ELSE IF response.status = "succeeded"
        THEN [quiet EXCEPT
                !.state = [s1 EXCEPT
                             !.result = Some(MakeResult(response, s1.copyAuthorization)),
                             !.isCompleted = Some(TRUE)]]
      ELSE IF response.status = "failed"
        THEN [quiet EXCEPT !.err = Some(FailedMessage(response.bodyAsText))]
      ELSE quiet

\* (a variant of HandleResponse that throws nothing on failed)
HandleResponseSwallowsFailed(pollerState, response, hasFireProgress) ==
  LET s1 == [pollerState EXCEPT !.status = response.status]
      quiet == [state |-> s1, fire |-> FALSE, err |-> None]
  IN  IF Truthy(s1.isCompleted) THEN quiet
      ELSE IF response.status \in {"running", "notStarted"} /\ hasFireProgress
        THEN [quiet EXCEPT !.fire = TRUE]
      ELSE IF response.status = "succeeded"
        THEN [quiet EXCEPT
                !.state = [s1 EXCEPT
                             !.result = Some(MakeResult(response, s1.copyAuthorization)),
                             !.isCompleted = Some(TRUE)]]
      ELSE quiet

\* (a variant of HandleResponse in which a completed state stays completed
\* only while the service still reports succeeded)
HandleResponseUncompletes(pollerState, response, hasFireProgress) ==
  LET s1 == [pollerState EXCEPT !.status = response.status]
      quiet == [state |-> s1, fire |-> FALSE, err |-> None]
  IN  IF Truthy(s1.isCompleted)
        THEN [quiet EXCEPT
                !.state = [s1 EXCEPT
                             !.isCompleted = Some(response.status = "succeeded")]]
      ELSE IF response.status \in {"running", "notStarted"} /\ hasFireProgress
        THEN [quiet EXCEPT !.fire = TRUE]
      ELSE IF response.status = "succeeded"
        THEN [quiet EXCEPT
                !.state = [s1 EXCEPT
                             !.result = Some(MakeResult(response, s1.copyAuthorization)),
                             !.isCompleted = Some(TRUE)]]
      ELSE IF response.status = "failed"
        THEN [quiet EXCEPT !.err = Some(FailedMessage(response.bodyAsText))]
      ELSE quiet

\* the code after the get call has resolved: the state it leaves, whether it
\* calls options.fireProgress with that state, and the error it throws, if any
HandleResponse(pollerState, response, hasFireProgress) ==
  LET s1 == [pollerState EXCEPT !.status = response.status]
      quiet == [state |-> s1, fire |-> FALSE, err |-> None]
  IN  IF Truthy(s1.isCompleted) THEN quiet
      ELSE IF response.status \in {"running", "notStarted"} /\ hasFireProgress
        THEN [quiet EXCEPT !.fire = TRUE]
      ELSE IF response.status = "succeeded"
        THEN [quiet EXCEPT
                !.state = [s1 EXCEPT
                             !.result = Some(MakeResult(response, s1.copyAuthorization)),
                             !.isCompleted = Some(TRUE)]]
      ELSE IF response.status = "failed"
        THEN [quiet EXCEPT !.err = Some(FailedMessage(response.bodyAsText))]
      ELSE quiet

----------------------------------------------------------------------------
(* State.                                                                  *)

VARIABLES
  heap,       \* the poll-state objects alive: object id -> BeginCopyModelPollState
  operation,  \* the object that is the state of the poller's current operation
  calls,      \* the update invocations: where each stands, and on which object
  poller,     \* updateIntervalInMs and the registered progress callbacks
  saved,      \* the serialized poller the caller holds, with the state it was taken from
  hist,       \* per poller instance: updates started, which of them issued begin-copy
  last,       \* the operation that finished last, and how
  loop        \* the polling loop: position, clock, timer

vars == <<heap, operation, calls, poller, saved, hist, last, loop>>

ObjIds == 1..(MaxCalls + 1)
CallIds == 1..MaxCalls

IdleCall ==
  [pc |-> "idle", self |-> 0, fireProgress |-> FALSE,
   nBegin |-> 0, getArg |-> <<>>, pre |-> <<>>]

NoLast ==
  [op |-> "none", threw |-> FALSE, err |-> <<>>, nBegin |-> 0,
   getArg |-> <<>>, resp |-> <<>>, fireProgress |-> FALSE, fired |-> <<>>,
   wasCompleted |-> FALSE]

\* the polling loop: not running ("off"), about to poll, polling, delaying,
\* or ended; timer is the delay being awaited, elapsed the time since the last
\* poll returned, left the state that poll left
IdleLoop == [pc |-> "off", timer |-> 0, elapsed |-> 0, left |-> <<>>]

InFlight(cs) == {c \in CallIds : cs[c].pc # "idle"}

Restrict(h, S) == [o \in (DOMAIN h) \cap S |-> h[o]]

\* Poller.fireProgress: every registered callback is called with the state
PollerFireProgress(state) ==
  [i \in 1..Len(poller.progressCallbacks) |->
     [callback |-> poller.progressCallbacks[i], state |-> state]]

\* the options of a poller constructed without resumeFrom
FreshOptions(intervals) ==
  {OptionsWith(c, a, i, r, p, None) :
     c \in {"client1"}, a \in Auths,
     i \in intervals,
     r \in {None} \cup {Some(x) : x \in SuppliedResultIds},
     p \in {None, Some("onProgress")}}

\* new BeginCopyModelPoller(options)
Constructed(options, resumes) ==
  LET st == MakeOperationState(ConstructorState(options))
  IN  /\ heap = (1 :> st)
      /\ operation = 1
      /\ calls = [c \in CallIds |-> IdleCall]
      /\ poller = ConstructorPoller(options)
      /\ hist = [nUpdates |-> 0, beginBy |-> <<>>, resumes |-> resumes,
                 initStarted |-> Truthy(st.isStarted)]

Init ==
  /\ \E options \in FreshOptions({None}) : Constructed(options, 0)
  /\ saved = None
  /\ last = NoLast
  /\ loop = IdleLoop

----------------------------------------------------------------------------
(* update.                                                                 *)

\* the invocation c ends: its slot is free again, and objects nothing refers
\* to any more are dropped
Settle(c, h, op, record) ==
  LET cs == [calls EXCEPT ![c] = IdleCall]
      refs == {op} \cup {cs[d].self : d \in InFlight(cs)}
  IN  /\ calls' = cs
      /\ operation' = op
      /\ heap' = Restrict(h, refs)
      /\ last' = record

\* update throws: the caller keeps the operation it had
Throw(c, h, message, resp) ==
  Settle(c, h, operation,
         [NoLast EXCEPT !.op = "update", !.threw = TRUE,
                        !.err = message, !.nBegin = calls[c].nBegin,
                        !.getArg = calls[c].getArg, !.resp = resp,
                        !.fireProgress = calls[c].fireProgress,
                        !.wasCompleted = Truthy(heap[calls[c].self].isCompleted)])

\* return makeBeginCopyModelPollOperation(pollerState): a new operation whose
\* state is a copy of the state just updated; the caller takes it as its
\* current operation
Return(c, h, fired, resp) ==
  LET self == calls[c].self
      others == {calls[d].self : d \in InFlight(calls) \ {c}}
      new == CHOOSE o \in ObjIds \ others : \A q \in ObjIds \ others : o <= q
      copy == MakeOperationState(h[self])
  IN  Settle(c, (new :> copy) @@ h, new,
             [NoLast EXCEPT !.op = "update",
                            !.nBegin = calls[c].nBegin,
                            !.getArg = calls[c].getArg, !.resp = resp,
                            !.fireProgress = calls[c].fireProgress,
                            !.fired = fired,
                            !.wasCompleted = Truthy(heap[self].isCompleted)])

\* update is called on the current operation and runs to its first await:
\* the begin call when the operation is not started, else the get call
StartUpdate(c, hasFireProgress) ==
  /\ calls[c].pc = "idle"
  /\ \A d \in CallIds : d < c => calls[d].pc # "idle"
  /\ hist.nUpdates < MaxUpdates
  /\ LET pollerState == heap[operation]
         ord == hist.nUpdates + 1
         call == [IdleCall EXCEPT !.self = operation,
                                  !.fireProgress = hasFireProgress,
                                  !.pre = Some(pollerState)]
     IN  IF ShouldBegin(pollerState)
         THEN /\ heap' = [heap EXCEPT ![operation] = MarkStarted(pollerState)]
              /\ calls' = [calls EXCEPT ![c] =
                             [call EXCEPT !.pc = "awaitBegin", !.nBegin = 1]]
              /\ hist' = [hist EXCEPT !.nUpdates = ord,
                                      !.beginBy = Append(@, ord)]
         ELSE /\ heap' = heap
              /\ calls' = [calls EXCEPT ![c] =
                             [call EXCEPT !.pc = "awaitGet",
                                          !.getArg = <<GetArgument(pollerState)>>]]
              /\ hist' = [hist EXCEPT !.nUpdates = ord]
  /\ last' = [NoLast EXCEPT !.op = "update called"]
  /\ UNCHANGED <<operation, poller, saved>>

\* the begin call settles; with an operation location the result id is
\* recorded and the get call is issued
BeginResponse(c, r) ==
  /\ calls[c].pc = "awaitBegin"
  /\ LET self == calls[c].self
         pollerState == heap[self]
     IN  IF r.kind = "reject" THEN Throw(c, heap, RemoteError, None)
         ELSE IF LocationMissing(r) THEN Throw(c, heap, MissingLocationMessage, None)
         ELSE LET s1 == SetResultId(pollerState, Val(r.operationLocation))
              IN  /\ heap' = [heap EXCEPT ![self] = s1]
                  /\ calls' = [calls EXCEPT ![c].pc = "awaitGet",
                                            ![c].getArg = <<GetArgument(s1)>>]
                  /\ last' = [NoLast EXCEPT !.op = "update awaiting"]
                  /\ UNCHANGED operation
  /\ UNCHANGED <<poller, saved, hist>>

\* the get call settles
GetResponse(c, r) ==
  /\ calls[c].pc = "awaitGet"
  /\ LET self == calls[c].self
         pollerState == heap[self]
     IN  IF r.kind = "reject" THEN Throw(c, heap, RemoteError, None)
         ELSE LET out == HandleResponse(pollerState, r, calls[c].fireProgress)
                  h == [heap EXCEPT ![self] = out.state]
                  fired == IF out.fire THEN PollerFireProgress(out.state) ELSE <<>>
              IN  IF out.err # None THEN Throw(c, h, Val(out.err), Some(r))
                  ELSE Return(c, h, fired, Some(r))
  /\ UNCHANGED <<poller, saved, hist>>

----------------------------------------------------------------------------
(* cancel, toString, resuming.                                             *)

\* (a variant of cancel that throws only while the operation is not completed,
\* and marks a completed operation as not completed)
CancelUnlessCompleted ==
  IF Truthy(heap[operation].isCompleted)
  THEN /\ last' = [NoLast EXCEPT !.op = "cancel"]
       /\ heap' = [heap EXCEPT ![operation].isCompleted = Some(FALSE)]
       /\ UNCHANGED <<operation, calls, poller, saved, hist>>
  ELSE /\ last' = [NoLast EXCEPT !.op = "cancel", !.threw = TRUE, !.err = CancelMessage]
       /\ UNCHANGED <<heap, operation, calls, poller, saved, hist>>

\* cancel: throw new Error("Cancel operation is not supported.")
Cancel ==
  /\ last' = [NoLast EXCEPT !.op = "cancel", !.threw = TRUE, !.err = CancelMessage]
  /\ UNCHANGED <<heap, operation, calls, poller, saved, hist>>

\* the caller serializes the current operation and keeps the string
Serialize ==
  /\ saved' = Some([token |-> toString(heap[operation]), state |-> heap[operation]])
  /\ last' = [NoLast EXCEPT !.op = "toString"]
  /\ UNCHANGED <<heap, operation, calls, poller, hist>>

\* new BeginCopyModelPoller({..., resumeFrom}) with the string kept
Resume(options) ==
  /\ saved # None
  /\ InFlight(calls) = {}
  /\ hist.resumes < MaxResumes
  /\ options.resumeFrom = Some(Val(saved).token)
  /\ heap' = (1 :> MakeOperationState(ConstructorState(options)))
  /\ operation' = 1
  /\ calls' = [c \in CallIds |-> IdleCall]
  /\ poller' = ConstructorPoller(options)
  /\ hist' = [nUpdates |-> 0, beginBy |-> <<>>, resumes |-> hist.resumes + 1,
              initStarted |-> Truthy(ConstructorState(options).isStarted)]
  /\ last' = [NoLast EXCEPT !.op = "resume"]
  /\ UNCHANGED saved

ResumeOptions ==
  IF saved = None THEN {}
  ELSE {OptionsWith(c, a, i, r, p, Some(Val(saved).token)) :
          c \in Clients, a \in {Val(saved).state.copyAuthorization},
          i \in {None},
          r \in {None} \cup {Some(x) : x \in SuppliedResultIds},
          p \in {None}}

\* one caller working on one poller: update (one at a time), cancel
Next ==
  \/ \E c \in CallIds, f \in BOOLEAN :
       InFlight(calls) = {} /\ StartUpdate(c, f) /\ UNCHANGED loop
  \/ \E c \in CallIds, r \in BeginOutcomes : BeginResponse(c, r) /\ UNCHANGED loop
  \/ \E c \in CallIds, r \in GetOutcomes : GetResponse(c, r) /\ UNCHANGED loop
  \/ Cancel /\ UNCHANGED loop

Spec == Init /\ [][Next]_vars

\* the same caller also serializes the poller and constructs pollers from the
\* string
InitResume ==
  /\ \E options \in {o \in FreshOptions({None}) :
                       o.copyAuthorization.modelId = "t1" /\ o.onProgress = None} :
       Constructed(options, 0)
  /\ saved = None
  /\ last = NoLast
  /\ loop = IdleLoop

\* (here the service answers with one short location or none, one pair of
\* dates and one body, and update is called without fireProgress)
ResumeBeginOutcomes ==
  {r \in BeginOutcomes :
     r.operationLocation = None \/ Len(Val(r.operationLocation)) <= 1}
ResumeGetOutcomes ==
  {r \in GetOutcomes :
     /\ r.bodyAsText = Body1
     /\ r.status = "succeeded" => r.createdOn # r.lastModified}

NextResume ==
  \/ \E c \in CallIds :
       InFlight(calls) = {} /\ StartUpdate(c, FALSE) /\ UNCHANGED loop
  \/ \E c \in CallIds, r \in ResumeBeginOutcomes :
       BeginResponse(c, r) /\ UNCHANGED loop
  \/ \E c \in CallIds, r \in ResumeGetOutcomes :
       GetResponse(c, r) /\ UNCHANGED loop
  \/ Serialize /\ UNCHANGED loop
  \/ \E options \in ResumeOptions : Resume(options) /\ UNCHANGED loop

SpecResume == InitResume /\ [][NextResume]_vars



\* the same caller, who also calls cancel (here the begin call resolves with
\* one location or with none, and the poller is resumed without a resultId
\* option)
LifeBeginOutcomes ==
  {r \in ResumeBeginOutcomes :
     r.kind = "ok" /\ r.operationLocation \in {None} \cup {Some(x) : x \in SuppliedResultIds}}
LifeOptions == {o \in ResumeOptions : o.resultId = None}

NextLife ==
  \/ \E c \in CallIds :
       InFlight(calls) = {} /\ StartUpdate(c, FALSE) /\ UNCHANGED loop
  \/ \E c \in CallIds, r \in LifeBeginOutcomes :
       BeginResponse(c, r) /\ UNCHANGED loop
  \/ \E c \in CallIds, r \in ResumeGetOutcomes :
       GetResponse(c, r) /\ UNCHANGED loop
  \/ Cancel /\ UNCHANGED loop
  \/ Serialize /\ UNCHANGED loop
  \/ \E options \in LifeOptions : Resume(options) /\ UNCHANGED loop

SpecLife == InitResume /\ [][NextLife]_vars

\* a caller that calls update again before earlier calls have settled
NextOverlap ==
  \/ \E c \in CallIds : StartUpdate(c, FALSE) /\ UNCHANGED loop
  \/ \E c \in CallIds, r \in ResumeBeginOutcomes :
       BeginResponse(c, r) /\ UNCHANGED loop
  \/ \E c \in CallIds, r \in ResumeGetOutcomes :
       GetResponse(c, r) /\ UNCHANGED loop

SpecOverlap == InitResume /\ [][NextOverlap]_vars

----------------------------------------------------------------------------
(* pollUntilDone: poll, await delay(), poll again, until the operation is   *)
(* completed or a poll has thrown.                                         *)

\* the clock advances by this much at a time
TickMs == CHOOSE i \in Intervals : \A j \in Intervals : i <= j

\* (a variant of delay that does not return the promise, so that nothing is
\* awaited)
delayNotAwaited == poller.updateIntervalInMs * 0

\* BeginCopyModelPoller.delay: delay(this.updateIntervalInMs)
delay == poller.updateIntervalInMs

\* poll(): one update on the current operation, given the poller's fireProgress
LoopPoll ==
  /\ loop.pc = "poll"
  /\ InFlight(calls) = {}
  /\ StartUpdate(1, TRUE)
  /\ loop' = [loop EXCEPT !.pc = "polling"]

\* when the update of this poll settles: a thrown error ends the loop and
\* reaches the caller, a completed operation ends it with the result, and
\* otherwise delay() is awaited
LoopSettle ==
  IF calls'[1].pc # "idle" THEN loop' = loop
  ELSE loop' = [pc |-> IF last'.threw THEN "failed"
                       ELSE IF Truthy(heap'[operation'].isCompleted) THEN "done"
                       ELSE "delay",
                timer |-> delay,
                elapsed |-> 0,
                left |-> Some(heap'[operation'])]

\* time passes while the delay is awaited
Tick ==
  /\ loop.pc = "delay"
  /\ loop.elapsed < loop.timer
  /\ loop' = [loop EXCEPT !.elapsed = @ + TickMs]
  /\ UNCHANGED <<heap, operation, calls, poller, saved, hist, last>>

\* the delay has been awaited: the loop polls again
DelayDone ==
  /\ loop.pc = "delay"
  /\ loop.elapsed >= loop.timer
  /\ loop' = [loop EXCEPT !.pc = "poll"]
  /\ UNCHANGED <<heap, operation, calls, poller, saved, hist, last>>

InitLoop ==
  /\ \E options \in FreshOptions({None} \cup {Some(x) : x \in Intervals}) :
       Constructed(options, 0)
  /\ saved = None
  /\ last = NoLast
  /\ loop = [IdleLoop EXCEPT !.pc = "poll"]

NextLoop ==
  \/ LoopPoll
  \/ \E r \in BeginOutcomes : BeginResponse(1, r) /\ LoopSettle
  \/ \E r \in GetOutcomes : GetResponse(1, r) /\ LoopSettle
  \/ Tick
  \/ DelayDone

SpecLoop == InitLoop /\ [][NextLoop]_vars

\* the loop with its scheduling: a poll that is due is made, the timer of
\* delay() runs and fires, and the loop goes on once it has fired
SpecLoopFair ==
  /\ InitLoop /\ [][NextLoop]_vars
  /\ WF_vars(LoopPoll)
  /\ WF_vars(Tick)
  /\ WF_vars(DelayDone)

----------------------------------------------------------------------------
(* Properties.                                                             *)

\* the state of the poller's current operation
Current == heap[operation]

\* the resume token the current poller was constructed from, if any
ResumedFrom == Val(Current.copyModelOptions).resumeFrom

\* C1: on a poller whose state starts with isStarted not set, whatever the
\* updates did (also when they failed), the begin-copy call has been issued
\* exactly once as soon as one update was called, by the first update, and
\* from then on isStarted is true on every state object; before the first
\* update no begin-copy call was issued.
C1_BeginIssuedOnce ==
  ~hist.initStarted =>
    /\ hist.nUpdates = 0 =>
         hist.beginBy = <<>> /\ ~Truthy(Current.isStarted)
    /\ hist.nUpdates >= 1 =>
         /\ hist.beginBy = <<1>>
         /\ \A o \in DOMAIN heap : Truthy(heap[o].isStarted)

\* C1 witness: a second update has settled after the first one failed in
\* its begin call (isStarted set, no result id recorded)
C1_Witness ==
  /\ ~hist.initStarted
  /\ hist.nUpdates = 2
  /\ hist.beginBy = <<1>>
  /\ last.op = "update"
  /\ Current.resultId = None
  /\ Truthy(Current.isStarted)

\* C2: right after a poller is constructed from the serialized string (and
\* a client), its modelId, resultId, status, isStarted, isCompleted and
\* result are those of the state the string was taken from.
C2_ResumeRoundTrip ==
  (last.op = "resume") =>
    LET original == Val(saved).state
    IN  /\ Current.modelId = original.modelId
        /\ Current.resultId = original.resultId
        /\ Current.status = original.status
        /\ Current.isStarted = original.isStarted
        /\ Current.isCompleted = original.isCompleted
        /\ Current.result = original.result

\* C3: a poller constructed from the token of a started operation (one that
\* has recorded its resultId) has the token's isStarted and resultId, and its
\* first update issues no begin-copy call and passes the token's resultId to
\* the get-copy-result call.
C3_ResumeStartedKeepsResultId ==
  (/\ ResumedFrom # None
   /\ Truthy(Val(ResumedFrom).state.isStarted)
   /\ Val(ResumedFrom).state.resultId # None) =>
    LET token == Val(ResumedFrom).state
    IN  /\ Current.isStarted = token.isStarted
        /\ hist.nUpdates = 0 => Current.resultId = token.resultId
        /\ \A c \in InFlight(calls) :
             hist.nUpdates = 1 =>
               calls[c].nBegin = 0 /\ calls[c].getArg = <<token.resultId>>

\* the update invocation c, at its call or at any of its later steps
Invocation(c) == IF calls'[c].pc # "idle" THEN calls'[c] ELSE calls[c]

\* the error message contains the text
Contains(message, text) == \E i \in 1..Len(message) : message[i] = text

\* C4: an update called on a state whose isCompleted is true issues no
\* remote call (no begin-copy, no get-copy-result), does not fail, and
\* leaves the state as it was when update was called, status included.
C4_UpdateOnCompletedIsNoOp ==
  [][\A c \in CallIds :
       (Invocation(c).pc # "idle" /\ Truthy(Val(Invocation(c).pre).isCompleted)) =>
         /\ Invocation(c).nBegin = 0
         /\ Invocation(c).getArg = <<>>
         /\ heap'[operation'] = Val(Invocation(c).pre)
         /\ (calls'[c].pc = "idle" => ~last'.threw)]_vars

\* C5: when the get-copy-result call of an update on a not-completed state
\* returns failed, the update throws an error whose message contains the
\* response body, isCompleted stays unset and the state has no result.
C5_FailedThrowsWithBody ==
  [][\A c \in CallIds, r \in GetOutcomes :
       (/\ GetResponse(c, r)
        /\ r.kind = "ok" /\ r.status = "failed"
        /\ ~Truthy(heap[calls[c].self].isCompleted)) =>
         /\ last'.op = "update" /\ last'.threw
         /\ Contains(last'.err, r.bodyAsText)
         /\ ~Truthy(heap'[operation'].isCompleted)
         /\ heap'[operation'].result = None]_vars

\* C5 witness: an update on a not-completed state has thrown on a failed status
C5_Witness ==
  /\ last.op = "update" /\ last.threw /\ ~last.wasCompleted
  /\ last.resp # None /\ Val(last.resp).status = "failed"
  /\ Contains(last.err, Val(last.resp).bodyAsText)

\* C6: when the get-copy-result call of an update on a not-completed state
\* returns succeeded with createdOn T1 and lastModified T2, the update
\* returns with result = {ready, T1, T2, copyAuthorization.modelId} and
\* isCompleted = true.
C6_SucceededSetsResult ==
  [][\A c \in CallIds, r \in GetOutcomes :
       (/\ GetResponse(c, r)
        /\ r.kind = "ok" /\ r.status = "succeeded"
        /\ ~Truthy(heap[calls[c].self].isCompleted)) =>
         /\ last'.op = "update" /\ ~last'.threw
         /\ heap'[operation'].result =
              Some([status |-> "ready",
                    trainingStartedOn |-> r.createdOn,
                    trainingCompletedOn |-> r.lastModified,
                    modelId |-> heap[calls[c].self].copyAuthorization.modelId])
         /\ heap'[operation'].isCompleted = Some(TRUE)]_vars

\* C6 witness: an update on a not-completed state has returned on succeeded,
\* with two different dates
C6_Witness ==
  /\ last.op = "update" /\ ~last.threw /\ ~last.wasCompleted
  /\ last.resp # None /\ Val(last.resp).status = "succeeded"
  /\ Val(last.resp).createdOn # Val(last.resp).lastModified
  /\ Truthy(Current.isCompleted) /\ Current.result # None

\* C7: an update on a not-completed state that is given fireProgress, with one
\* progress callback registered, and whose get-copy-result call returns
\* running or notStarted calls the callback exactly once, with the state as
\* the update leaves it, and changes nothing of the state but status; an
\* update whose get-copy-result call returns succeeded or failed calls no
\* callback.
C7_ProgressFiredOnce ==
  [][\A c \in CallIds, r \in GetOutcomes :
       (GetResponse(c, r) /\ r.kind = "ok") =>
         /\ (/\ r.status \in {"running", "notStarted"}
             /\ ~Truthy(heap[calls[c].self].isCompleted)
             /\ calls[c].fireProgress
             /\ Len(poller.progressCallbacks) = 1) =>
               /\ ~last'.threw
               /\ last'.fired = <<[callback |-> poller.progressCallbacks[1],
                                   state |-> heap'[operation']]>>
               /\ heap'[operation'] =
                    [heap[calls[c].self] EXCEPT !.status = r.status]
               /\ ~Truthy(heap'[operation'].isCompleted)
               /\ heap'[operation'].result = None
         /\ r.status \in {"succeeded", "failed"} => last'.fired = <<>>]_vars

\* C7 witness: a callback has been called by an update that got running
C7_Witness ==
  /\ last.op = "update" /\ Len(last.fired) = 1
  /\ last.resp # None /\ Val(last.resp).status = "running"
  /\ last.fired[1].state = Current

\* C8: cancel can be called in every state, and every call of it throws
\* "Cancel operation is not supported.", issues no remote call and leaves
\* every state object, the current operation and the invocations as they are.
C8_CancelAlwaysThrows ==
  /\ [](ENABLED Cancel)
  /\ [][last'.op = "cancel" =>
          /\ last'.threw /\ last'.err = CancelMessage
          /\ heap' = heap /\ operation' = operation /\ calls' = calls]_vars

\* C8 witness: cancel has thrown on a completed operation
C8_Witness ==
  /\ last.op = "cancel" /\ last.threw
  /\ Truthy(Current.isCompleted)

\* C9: when the begin-copy call returns without an operation location
\* (undefined or empty), the update throws the missing-location error at
\* once: it has issued its one begin-copy call and no get-copy-result call,
\* resultId is what it was (absent if it was absent), and the state it
\* leaves is one on which update does not call begin-copy again.
C9_MissingLocationThrows ==
  [][\A c \in CallIds, r \in BeginOutcomes :
       (/\ BeginResponse(c, r)
        /\ r.kind = "ok"
        /\ (r.operationLocation = None \/ Val(r.operationLocation) = <<>>)) =>
         /\ last'.op = "update" /\ last'.threw
         /\ last'.err = MissingLocationMessage
         /\ last'.nBegin = 1 /\ last'.getArg = <<>>
         /\ calls'[c].pc = "idle"
         /\ heap'[operation'].resultId = heap[calls[c].self].resultId
         /\ heap'[operation'].resultId = Val(calls[c].pre).resultId
         /\ ~ShouldBegin(heap'[operation'])]_vars

\* C9 witness: an update has thrown the missing-location error and the state
\* has no resultId
C9_Witness ==
  /\ last.op = "update" /\ last.threw
  /\ last.err = MissingLocationMessage
  /\ Current.resultId = None /\ Truthy(Current.isStarted)

\* C10: under pollUntilDone no two updates are in flight at once; an update
\* other than the first is called only when the previous one has returned
\* and at least updateIntervalInMs (5000 ms unless configured) has elapsed
\* since; and the state it is called on is the state the previous update left.
C10_PollsAreSequential ==
  /\ [](Cardinality(InFlight(calls)) <= 1)
  /\ [](poller.updateIntervalInMs \in {DefaultUpdateIntervalInMs} \cup Intervals)
  /\ [][\A c \in CallIds :
          (calls[c].pc = "idle" /\ calls'[c].pc # "idle" /\ hist.nUpdates >= 1) =>
            /\ InFlight(calls) = {}
            /\ loop.elapsed >= poller.updateIntervalInMs
            /\ calls'[c].pre = loop.left
            /\ loop.left = Some(heap[operation])]_vars

\* C10 witness: the second poll is in flight, called after the default delay
C10_Witness ==
  /\ hist.nUpdates = 2
  /\ loop.pc = "polling"
  /\ poller.updateIntervalInMs = DefaultUpdateIntervalInMs
  /\ loop.elapsed = DefaultUpdateIntervalInMs


\* C11: under pollUntilDone, a get-copy-result answer of running or
\* notStarted makes the loop await the delay and then poll again; the first
\* answer of succeeded ends the loop with the final result; a missing
\* operation location, a failed status or a rejected remote call ends the
\* loop with that error reaching the caller; and once the loop has ended, no
\* update is in flight and nothing more is done.
C11_LoopStopsAtTerminalOutcome ==
  /\ [][\A r \in GetOutcomes :
          (GetResponse(1, r) /\ r.kind = "ok") =>
            /\ r.status \in {"running", "notStarted"} =>
                 loop'.pc = "delay" /\ ~last'.threw
            /\ r.status = "succeeded" =>
                 /\ loop'.pc = "done" /\ ~last'.threw
                 /\ loop'.left = Some(heap'[operation'])
                 /\ heap'[operation'].result =
                      Some(MakeResult(r, heap[calls[1].self].copyAuthorization))
            /\ r.status = "failed" =>
                 /\ loop'.pc = "failed" /\ last'.threw
                 /\ last'.err = FailedMessage(r.bodyAsText)]_vars
  /\ [][\A r \in BeginOutcomes :
          BeginResponse(1, r) =>
            /\ (r.kind = "ok" /\ LocationMissing(r)) =>
                 /\ loop'.pc = "failed" /\ last'.threw
                 /\ last'.err = MissingLocationMessage
            /\ r.kind = "reject" =>
                 loop'.pc = "failed" /\ last'.threw /\ last'.err = RemoteError]_vars
  /\ [](loop.pc \in {"done", "failed"} =>
          /\ InFlight(calls) = {}
          /\ (loop.pc = "failed") = last.threw
          /\ ~ENABLED NextLoop)
  /\ (loop.pc = "delay") ~> (loop.pc = "poll")
  /\ (loop.pc = "poll" /\ hist.nUpdates < MaxUpdates) ~> (loop.pc = "polling")

\* C11 witness: the loop has ended with the result at its second poll, after
\* a first poll that got running
C11_Witness ==
  /\ loop.pc = "done"
  /\ hist.nUpdates = 2
  /\ Current.result # None
  /\ Val(last.resp).status = "succeeded"


\* C12: the string toString returns has no client property, and for every
\* other field of the state (modelId, targetResourceId, targetResourceRegion,
\* copyAuthorization, resultId, status, isStarted, isCompleted, result,
\* copyModelOptions) it holds the value the field has when toString is
\* called: a field with a value appears with that value (the dates of result
\* as the same instants, copyModelOptions with every data property of the
\* options), and a field that is undefined is the one that does not appear.
C12_TokenHoldsEveryField ==
  saved # None =>
    LET json == Val(saved).token.state
        state == Val(saved).state
    IN  /\ json.client = None
        /\ json.modelId = Some(state.modelId)
        /\ json.targetResourceId = Some(state.targetResourceId)
        /\ json.targetResourceRegion = Some(state.targetResourceRegion)
        /\ json.copyAuthorization = Some(state.copyAuthorization)
        /\ json.resultId = state.resultId
        /\ json.status = Some(state.status)
        /\ json.isStarted = state.isStarted
        /\ json.isCompleted = state.isCompleted
        /\ (json.result = None) = (state.result = None)
        /\ state.result # None =>
             LET written == Val(json.result)
                 result == Val(state.result)
             IN  /\ written.status = result.status
                 /\ written.modelId = result.modelId
                 /\ written.trainingStartedOn.ms = result.trainingStartedOn.ms
                 /\ written.trainingCompletedOn.ms = result.trainingCompletedOn.ms
        /\ json.copyModelOptions # None
        /\ LET written == Val(json.copyModelOptions)
               options == Val(state.copyModelOptions)
           IN  /\ written.modelId = Some(options.modelId)
               /\ written.targetResourceId = Some(options.targetResourceId)
               /\ written.targetResourceRegion = Some(options.targetResourceRegion)
               /\ written.copyAuthorization = Some(options.copyAuthorization)
               /\ written.updateIntervalInMs = options.updateIntervalInMs
               /\ written.resultId = options.resultId
               /\ written.resumeFrom = options.resumeFrom

\* C12 witness: the string was taken from a completed operation, in which
\* every field has a value
C12_Witness ==
  /\ saved # None
  /\ last.op = "toString"
  /\ Val(saved).state = Current
  /\ Current.resultId # None /\ Current.result # None
  /\ Truthy(Current.isStarted) /\ Truthy(Current.isCompleted)
  /\ Current.status = "succeeded"


\* C13: in every state of the poller, the state of its current operation
\* has a result if and only if its status is succeeded.
C13_ResultIffSucceeded ==
  (Current.result # None) <=> (Current.status = "succeeded")

\* C14: whenever no update is in flight on a poller that was constructed
\* without a resultId option, resultId is set if and only if isStarted is
\* true: neither isStarted = true with resultId absent nor resultId set with
\* isStarted not true occurs.
C14_ResultIdIffStarted ==
  (InFlight(calls) = {} /\ Val(Current.copyModelOptions).resultId = None) =>
    ((Current.resultId # None) <=> Truthy(Current.isStarted))


\* C15: on one poller, isCompleted goes from not true to true only in an
\* update whose get-copy-result call returned succeeded, and once it is true
\* every later step of update, cancel and toString leaves it true (so it
\* becomes true at most once); a poller constructed from a token has the
\* isCompleted of the state the token was taken from, true if that was true.
C15_CompletedIsStable ==
  [][/\ last'.op # "resume" =>
          /\ Truthy(heap[operation].isCompleted) =>
               Truthy(heap'[operation'].isCompleted)
          /\ (~Truthy(heap[operation].isCompleted)
                /\ Truthy(heap'[operation'].isCompleted)) =>
               /\ last'.op = "update" /\ ~last'.threw
               /\ last'.resp # None /\ Val(last'.resp).status = "succeeded"
     /\ last'.op = "resume" =>
          heap'[operation'].isCompleted = Val(saved).state.isCompleted]_vars

\* C15 witness: a poller resumed from the token of a completed operation has
\* been updated again, with an answer other than succeeded, and cancelled,
\* and is still completed
C15_Witness ==
  /\ hist.resumes = 1 /\ hist.nUpdates = 1
  /\ last.op = "cancel"
  /\ Truthy(Val(saved).state.isCompleted)
  /\ Truthy(Current.isCompleted)
  /\ Current.status = "running"


\* C16: when the begin-copy call returns a (non-empty) operation location L,
\* the resultId recorded is the part of L after its last '/': a suffix of L
\* without '/' that is the whole of L or is preceded by '/'; that resultId is
\* what the get-copy-result call is given; and 'https://x/ops/abc123' gives
\* 'abc123'.
C16_ResultIdIsLastSegment ==
  /\ ExtractResultId(<<"h", "t", "t", "p", "s", ":", "/", "/", "x", "/",
                       "o", "p", "s", "/", "a", "b", "c", "1", "2", "3">>)
       = <<"a", "b", "c", "1", "2", "3">>
  /\ [][\A c \in CallIds, r \in BeginOutcomes :
          (/\ BeginResponse(c, r)
           /\ r.kind = "ok"
           /\ r.operationLocation # None /\ Val(r.operationLocation) # <<>>) =>
            LET L == Val(r.operationLocation)
                resultId == heap'[calls[c].self].resultId
            IN  /\ resultId # None
                /\ \E k \in 0..Len(L) :
                     /\ Val(resultId) = SubSeq(L, k + 1, Len(L))
                     /\ \A i \in (k + 1)..Len(L) : L[i] # "/"
                     /\ k = 0 \/ L[k] = "/"
                /\ calls'[c].pc = "awaitGet"
                /\ calls'[c].getArg = <<resultId>>]_vars

\* C16 witness: an update has recorded the resultId 'a' from the location
\* the begin-copy call returned and has issued its get-copy-result call
C16_Witness ==
  \E c \in CallIds :
    /\ calls[c].pc = "awaitGet" /\ calls[c].nBegin = 1
    /\ Val(calls[c].pre).resultId = None
    /\ heap[calls[c].self].resultId = Some(<<"a">>)
    /\ calls[c].getArg = <<Some(<<"a">>)>>


\* C17: a poller, fresh or constructed from a token, has status notStarted
\* as long as no update has been called on it, whatever the token's status,
\* isStarted and isCompleted are; and from then on its status changes only
\* when the get-copy-result call of an update resolves, to the status of the
\* answer (an update that fails in its begin-copy call, or whose get call
\* rejects, leaves it as it is).
C17_StatusStartsNotStarted ==
  /\ [](hist.nUpdates = 0 => Current.status = "notStarted")
  /\ [][heap'[operation'].status # heap[operation].status =>
          \/ last'.op = "resume" /\ heap'[operation'].status = "notStarted"
          \/ /\ last'.op = "update"
             /\ last'.resp # None /\ Val(last'.resp).kind = "ok"
             /\ heap'[operation'].status = Val(last'.resp).status]_vars

\* C17 witness: a poller has just been constructed from the token of a
\* completed operation whose status was succeeded
C17_Witness ==
  /\ last.op = "resume"
  /\ Val(saved).state.status = "succeeded"
  /\ Truthy(Val(saved).state.isStarted)
  /\ Truthy(Current.isCompleted)
  /\ Current.status = "notStarted"


\* C18: every get-copy-result call an update issues is given a defined
\* resultId.
C18_GetCallHasResultId ==
  \A c \in CallIds :
    calls[c].pc = "awaitGet" =>
      Len(calls[c].getArg) = 1 /\ calls[c].getArg[1] # None


\* C19: when update is called again on an operation before earlier calls on
\* it have finished, the begin-copy call is issued at most once in total, by
\* the first call: a call started while another is in flight on the same
\* state object finds isStarted true and issues no begin-copy call, and at no
\* time are two begin-copy calls pending.
C19_OverlappingUpdatesBeginOnce ==
  /\ [](Len(hist.beginBy) <= 1)
  /\ [](Cardinality({c \in CallIds : calls[c].pc = "awaitBegin"}) <= 1)
  /\ [][\A c \in CallIds :
          (/\ calls[c].pc = "idle" /\ calls'[c].pc # "idle"
           /\ \E d \in InFlight(calls) : calls[d].self = operation) =>
            /\ Truthy(heap[operation].isStarted)
            /\ calls'[c].nBegin = 0
            /\ calls'[c].pc = "awaitGet"
            /\ hist'.beginBy = hist.beginBy]_vars

\* C19 witness: two updates are in flight on the same not-yet-started
\* operation, the second called while the first awaits the begin-copy call
C19_Witness ==
  /\ ~hist.initStarted
  /\ calls[1].pc = "awaitBegin" /\ calls[2].pc = "awaitGet"
  /\ calls[1].self = calls[2].self
  /\ ~Truthy(Val(calls[1].pre).isStarted)
  /\ hist.beginBy = <<1>>


\* the serialized text has a key named client somewhere: in the state, in its
\* copyModelOptions, or in the token those options were resumed from
RECURSIVE NamesClient(_)
NamesClient(token) ==
  \/ token.state.client # None
  \/ /\ token.state.copyModelOptions # None
     /\ LET options == Val(token.state.copyModelOptions)
        IN  \/ options.client # None
            \/ options.resumeFrom # None /\ NamesClient(Val(options.resumeFrom))

\* the state with another client, in the state and in the options it keeps
WithClient(state, client) ==
  [state EXCEPT !.client = client,
                !.copyModelOptions = Some([Val(@) EXCEPT !.client = client])]

\* C20: the string toString returns has no key named client at any depth
\* (not in the state, not in its copyModelOptions, not in the token those
\* options were resumed from), and the same state with any other client, in
\* the state or in the options it keeps, gives the same string.
C20_TokenNeverNamesClient ==
  saved # None =>
    LET token == Val(saved).token
        state == Val(saved).state
    IN  /\ ~NamesClient(token)
        /\ \A c \in Clients :
             /\ toString([state EXCEPT !.client = c]) = token
             /\ toString(WithClient(state, c)) = token

\* C20 witness: the string was taken from a poller that was itself resumed
\* from a token, with another client than the first poller's
C20_Witness ==
  /\ saved # None
  /\ last.op = "toString"
  /\ Val(Val(saved).state.copyModelOptions).resumeFrom # None
  /\ Val(saved).state.client = "client2"
  /\ Val(Val(saved).state.copyModelOptions).client = "client2"

====
